---- MODULE Spec2Model ----
(***************************************************************************)
(* Model of pylinkvalidator/reporter.py: report() and the renderers it     *)
(* selects, print_summary, close_quietly, send_email and truncate.         *)
(*                                                                         *)
(* A sink holds the sequence of things written to it.  A line of a report  *)
(* is a record [kind, arg, indent]; the structured and the test-report     *)
(* documents are written by a single write() call and are one record each. *)
(* Every print()/write() call of a renderer can raise: failAt = k makes    *)
(* the k-th call of the selected renderer raise (0: none does).            *)
(***************************************************************************)
EXTENDS Integers, Sequences, FiniteSets

\* ---- bounds ----
MaxPages == 2
MaxDomains == 2
MaxFailAt == 4
MaxLen == 4
MaxSize == 5

\* ---- models.py constants imported by reporter.py ----
FORMAT_PLAIN == "plain"
FORMAT_JSON == "json"
FORMAT_JUNIT == "junit"
REPORT_TYPE_ALL == "all"
REPORT_TYPE_ERRORS == "errors"

\* a format / report type other than the ones reporter.py compares against
FORMAT_OTHER == "html"
REPORT_TYPE_OTHER == "summary"

Formats == {FORMAT_PLAIN, FORMAT_JSON, FORMAT_JUNIT, FORMAT_OTHER}
ReportTypes == {REPORT_TYPE_ALL, REPORT_TYPE_ERRORS, REPORT_TYPE_OTHER}
OK_STATUS == 200
Statuses == {OK_STATUS, 404}
Sinks == {"file", "email", "stdout"}
None == "None"

VARIABLES
    \* config.options and site, the arguments of report()
    format, output, smtp, console, multi, report_type, address, logger, pages,
    \* position in report() and its locals
    pc, output_files, output_file, email_file,
    \* the world report() acts on
    content, closed, summaryCalled, logged, dumped, renderRaised, avgFailed,
    writeFailed, closeFailed, smtpError, connAttempted, sent, exitStatus,
    raisedFrom, steps,
    \* truncate(): argument, size, result
    tvalue, tsize, tresult, tpc

configVars == <<format, output, smtp, console, multi, report_type, address,
                logger, pages>>
reportVars == <<pc, output_files, output_file, email_file, content, closed,
                summaryCalled, logged, dumped, renderRaised, avgFailed,
                writeFailed, closeFailed, smtpError, connAttempted, sent,
                exitStatus, raisedFrom, steps>>
truncVars == <<tvalue, tsize, tresult, tpc>>
vars == <<configVars, reportVars, truncVars>>

\* ---------------------------------------------------------------------
\* site: pages, error_pages, multi_pages, multi_error_pages
\* ---------------------------------------------------------------------
PageIds == 1..Len(pages)

RECURSIVE SelectIds(_, _)
SelectIds(n, keep) ==
    IF n = 0 THEN <<>>
    ELSE IF n \in keep THEN Append(SelectIds(n - 1, keep), n)
         ELSE SelectIds(n - 1, keep)

\* site.pages, as the ids of its values in mapping order
site_pages == SelectIds(Len(pages), PageIds)

\* site.error_pages: the pages whose fetch failed
site_error_pages ==
    SelectIds(Len(pages), {i \in PageIds : pages[i].status # OK_STATUS})

\* site.is_ok
site_is_ok == site_error_pages = <<>>

\* site.multi_pages[d] / site.multi_error_pages[d]
multi_pages(d) ==
    SelectIds(Len(pages), {i \in PageIds : pages[i].domain = d})

multi_error_pages(d) ==
    SelectIds(Len(pages), {i \in PageIds : pages[i].domain = d
                                           /\ pages[i].status # OK_STATUS})

\* ---------------------------------------------------------------------
\* oprint and the lines of a report
\* ---------------------------------------------------------------------
Line(k, a, ind) == [kind |-> k, arg |-> a, indent |-> ind]

\* oprint(message, files): one print call per file, in the order of files
oprint(message, files) ==
    [i \in 1..Len(files) |-> [msg |-> message, file |-> files[i]]]

RECURSIVE oprintAll(_, _)
oprintAll(messages, files) ==
    IF messages = <<>> THEN <<>>
    ELSE oprint(Head(messages), files) \o oprintAll(Tail(messages), files)

\* the first n print/write calls of ws take effect
RECURSIVE ApplyWrites(_, _, _)
ApplyWrites(c, ws, n) ==
    IF n = 0 \/ ws = <<>> THEN c
    ELSE ApplyWrites([c EXCEPT ![Head(ws).file] = Append(@, Head(ws).msg)],
                     Tail(ws), n - 1)

\* _print_details(page_iterator, output_files, config, indent): the block
\* of a page, identified by its status line
print_details(ids, ind) == [i \in 1..Len(ids) |-> Line("page", ids[i], ind)]

\* the page set a renderer selects from config.options.report_type
SelectedPages ==
    IF report_type = REPORT_TYPE_ERRORS THEN site_error_pages
    ELSE IF report_type = REPORT_TYPE_ALL THEN site_pages
    ELSE <<>>

\* outcome of a renderer: the sinks afterwards, whether an exception leaves
\* it, whether print_exc() ran, whether print_summary() was called, whether
\* the averages failed, whether a print/write call raised
Outcome(c, r, d, s, a, w) ==
    [content |-> c, raised |-> r, dumped |-> d, summary |-> s,
     avgf |-> a, wfail |-> w]

SummaryLine == Line("summary", Len(site_error_pages), 0)

\* ---------------------------------------------------------------------
\* print_summary(site, config, total_time): print() to sys.stdout
\* ---------------------------------------------------------------------
print_summary(c, failAt) ==
    LET w == oprintAll(<<SummaryLine>> \o print_details(SelectedPages, 2),
                       <<"stdout">>)
        f == failAt \in 1..Len(w)
    IN  [content |-> ApplyWrites(c, w, IF f THEN failAt - 1 ELSE Len(w)),
         raised |-> f]

\* ---------------------------------------------------------------------
\* _write_plain_text_report_single
\* ---------------------------------------------------------------------
write_plain_text_report_single(c, files, avgFails, failAt) ==
    LET w1 == IF avgFails THEN <<>>
              ELSE oprintAll(<<SummaryLine, Line("avg_response", 0, 2),
                               Line("avg_process", 0, 2)>>, files)
        f1 == failAt \in 1..Len(w1)
        c1 == ApplyWrites(c, w1, IF f1 THEN failAt - 1 ELSE Len(w1))
        sel == SelectedPages
        w2 == IF sel # <<>>
              THEN oprintAll(<<Line("start_urls", 0, 2)>>
                             \o print_details(sel, 2), files)
              ELSE <<>>
        k2 == IF f1 THEN 0 ELSE failAt - Len(w1)
        f2 == k2 \in 1..Len(w2)
        c2 == ApplyWrites(c1, w2, IF f2 THEN k2 - 1 ELSE Len(w2))
    IN  Outcome(c2, f2, avgFails \/ f1, FALSE, avgFails, f1 \/ f2)

\* ---------------------------------------------------------------------
\* _write_plain_text_report_multi
\* ---------------------------------------------------------------------
MultiBucket(d) ==
    IF report_type = REPORT_TYPE_ERRORS THEN multi_error_pages(d)
    ELSE IF report_type = REPORT_TYPE_ALL THEN multi_pages(d)
    ELSE <<>>

RECURSIVE DomainBlocks(_)
DomainBlocks(d) ==
    IF d > MaxDomains THEN <<>>
    ELSE (IF MultiBucket(d) # <<>>
          THEN <<Line("start_domain", d, 2)>>
               \o print_details(MultiBucket(d), 4)
          ELSE <<>>) \o DomainBlocks(d + 1)

write_plain_text_report_multi(c, files, avgFails, failAt) ==
    LET w == IF avgFails THEN <<>>
             ELSE oprintAll(<<Line("summary_multi", Len(site_error_pages), 0),
                              Line("avg_response", 0, 2),
                              Line("avg_process", 0, 2)>>
                            \o DomainBlocks(1), files)
        f == failAt \in 1..Len(w)
    IN  Outcome(ApplyWrites(c, w, IF f THEN failAt - 1 ELSE Len(w)),
                FALSE, avgFails \/ f, FALSE, avgFails, f)

\* _write_plain_text_report
write_plain_text_report(c, files, avgFails, failAt) ==
    IF multi THEN write_plain_text_report_multi(c, files, avgFails, failAt)
    ELSE write_plain_text_report_single(c, files, avgFails, failAt)

\* variant: the summary is printed before the document is written
WriteThenSummary_SummaryFirst(c, out_file, doc, avgFails, failAt) ==
    LET ps == print_summary(c, failAt)
    IN  IF ps.raised \/ out_file = None
        THEN Outcome(ps.content, TRUE, avgFails, TRUE, avgFails, TRUE)
        ELSE Outcome([ps.content EXCEPT ![out_file] = Append(@, doc)],
                     FALSE, avgFails, TRUE, avgFails, FALSE)

\* ---------------------------------------------------------------------
\* the tail shared by the structured and the test-report renderer:
\* output_file.write(document); print_summary(site, config, total_time)
\* ---------------------------------------------------------------------
WriteThenSummary(c, out_file, doc, avgFails, failAt) ==
    IF out_file = None \/ failAt = 1
    THEN Outcome(c, TRUE, avgFails, FALSE, avgFails, TRUE)
    ELSE LET c1 == [c EXCEPT ![out_file] = Append(@, doc)]
             ps == print_summary(c1, IF failAt = 0 THEN 0 ELSE failAt - 1)
         IN  Outcome(ps.content, ps.raised, avgFails, TRUE, avgFails,
                     ps.raised)

\* ---------------------------------------------------------------------
\* _write_json_report
\* ---------------------------------------------------------------------
JsonDocument(avgFails) ==
    [kind |-> "json",
     meta |-> [total_urls |-> Len(site_pages),
               total_errors |-> Len(site_error_pages),
               global_status |-> IF site_is_ok THEN "SUCCESS" ELSE "ERROR",
               averages |-> ~avgFails],
     pages |-> SelectedPages]

write_json_report(c, out_file, avgFails, failAt) ==
    WriteThenSummary(c, out_file, JsonDocument(avgFails), avgFails, failAt)

\* ---------------------------------------------------------------------
\* _write_junit_report
\* ---------------------------------------------------------------------
JunitCases(ids) ==
    [i \in 1..Len(ids) |->
        [name |-> ids[i],
         status |-> IF pages[ids[i]].status = OK_STATUS THEN "passed"
                    ELSE "failed"]]

\* variant: the cases follow the configured scope
JunitDocument_Scoped == [kind |-> "junit", cases |-> JunitCases(SelectedPages)]

JunitDocument == [kind |-> "junit", cases |-> JunitCases(site_pages)]

write_junit_report(c, out_file, failAt) ==
    WriteThenSummary(c, out_file, JunitDocument, FALSE, failAt)

\* ---------------------------------------------------------------------
\* report(): the sink list built before the try block
\* ---------------------------------------------------------------------
\* variant: the console is a sink only on request
ResolveSinks_ConsoleOnRequest(out, mail, cons) ==
    LET f == IF out THEN <<"file">> ELSE <<>>
        fe == IF mail THEN Append(f, "email") ELSE f
    IN  IF cons THEN Append(fe, "stdout") ELSE fe

ResolveSinks(out, mail, cons) ==
    LET f == IF out THEN <<"file">> ELSE <<>>
        fe == IF mail THEN Append(f, "email") ELSE f
    IN  IF cons \/ fe = <<>> THEN Append(fe, "stdout") ELSE fe

\* variant: the error of close() is not swallowed
close_quietly_Raises(closeFails) == closeFails

\* close_quietly(a_file): whether an exception leaves it
close_quietly(closeFails) == FALSE

TypeOK ==
    /\ format \in Formats /\ report_type \in ReportTypes
    /\ {output, smtp, console, multi, address, logger} \subseteq BOOLEAN
    /\ Len(pages) <= MaxPages
    /\ closed \subseteq Sinks

\* An option or attribute that report() never reads under a configuration is
\* held at its default: multi is read by the plain-text renderer only, the
\* start domain of a page by the multi-site renderer only, address by
\* send_email only.
UnreadAtDefault ==
    /\ (format # FORMAT_PLAIN) => ~multi
    /\ ~multi => \A i \in 1..Len(pages) : pages[i].domain = 1
    /\ ~smtp => ~address

Init ==
    /\ format \in Formats
    /\ output \in BOOLEAN /\ smtp \in BOOLEAN /\ console \in BOOLEAN
    /\ multi \in BOOLEAN
    /\ report_type \in ReportTypes
    /\ address \in BOOLEAN
    /\ logger \in BOOLEAN
    /\ \E n \in 0..MaxPages :
          pages \in [1..n -> [status : Statuses, domain : 1..MaxDomains]]
    /\ UnreadAtDefault
    /\ pc = "start"
    /\ output_files = <<>> /\ output_file = None /\ email_file = None
    /\ content = [s \in Sinks |-> <<>>]
    /\ closed = {}
    /\ summaryCalled = FALSE /\ logged = FALSE /\ dumped = FALSE
    /\ renderRaised = FALSE /\ avgFailed = FALSE /\ writeFailed = FALSE
    /\ closeFailed = FALSE
    /\ smtpError = "none" /\ connAttempted = FALSE /\ sent = FALSE
    /\ exitStatus = 0 /\ raisedFrom = "none" /\ steps = <<>>
    /\ tvalue = <<>> /\ tsize = 0 /\ tresult = <<>> /\ tpc = "idle"

\* report(), lines 47-60: open the file, allocate the buffer, add the console
ReportResolveSinks ==
    /\ pc = "start"
    /\ \E openFails \in BOOLEAN :
          IF output /\ openFails
          THEN /\ pc' = "raised" /\ raisedFrom' = "open"
               /\ UNCHANGED <<output_files, output_file, email_file, steps>>
          ELSE /\ output_file' = IF output THEN "file" ELSE None
               /\ email_file' = IF smtp THEN "email" ELSE None
               /\ output_files' = ResolveSinks(output, smtp, console)
               /\ steps' = Append(steps, "resolve")
               /\ pc' = "resolved"
               /\ UNCHANGED raisedFrom
    /\ UNCHANGED <<content, closed, summaryCalled, logged, dumped,
                   renderRaised, avgFailed, writeFailed, closeFailed,
                   smtpError, connAttempted, sent, exitStatus>>
    /\ UNCHANGED <<configVars, truncVars>>

\* the renderer the three format tests of report() select
NoRenderer(c) == Outcome(c, FALSE, FALSE, FALSE, FALSE, FALSE)

SelectRenderer(c, avgFails, failAt) ==
    IF format = FORMAT_PLAIN
    THEN write_plain_text_report(c, output_files, avgFails, failAt)
    ELSE IF format = FORMAT_JSON
    THEN write_json_report(c, output_file, avgFails, failAt)
    ELSE IF format = FORMAT_JUNIT
    THEN write_junit_report(c, output_file, failAt)
    ELSE NoRenderer(c)

\* report(), lines 62-71: the try block and its broad catch
ReportRender ==
    /\ pc = "resolved"
    /\ \E avgFails \in BOOLEAN, failAt \in 0..MaxFailAt :
          LET r == SelectRenderer(content, avgFails, failAt)
          IN  /\ content' = r.content
              /\ summaryCalled' = r.summary
              /\ dumped' = r.dumped
              /\ avgFailed' = r.avgf
              /\ writeFailed' = r.wfail
              /\ renderRaised' = r.raised
              /\ logged' = (r.raised /\ logger)
    /\ steps' = IF format \in {FORMAT_PLAIN, FORMAT_JSON, FORMAT_JUNIT}
                THEN Append(steps, format) ELSE steps
    /\ pc' = "rendered"
    /\ UNCHANGED <<output_files, output_file, email_file, closed, closeFailed,
                   smtpError, connAttempted, sent, exitStatus, raisedFrom>>
    /\ UNCHANGED <<configVars, truncVars>>

\* report(), lines 73-74.  closed records the sinks close() was called on;
\* closeFails makes that call raise inside close_quietly.
ReportClose ==
    /\ pc = "rendered"
    /\ \E closeFails \in BOOLEAN :
          IF output_file # None
          THEN /\ closed' = closed \cup {output_file}
               /\ closeFailed' = closeFails
               /\ steps' = Append(steps, "close")
               /\ IF close_quietly(closeFails)
                  THEN pc' = "raised" /\ raisedFrom' = "close"
                  ELSE pc' = "closed" /\ UNCHANGED raisedFrom
          ELSE /\ pc' = "closed"
               /\ UNCHANGED <<closed, closeFailed, steps, raisedFrom>>
    /\ UNCHANGED <<output_files, output_file, email_file, content,
                   summaryCalled, logged, dumped, renderRaised, avgFailed,
                   writeFailed, smtpError, connAttempted, sent, exitStatus>>
    /\ UNCHANGED <<configVars, truncVars>>

\* ---------------------------------------------------------------------
\* send_email(email_file, site, config)
\* ---------------------------------------------------------------------
SmtpSteps(tls, creds) ==
    {"connect", "sendmail", "quit"}
       \cup (IF tls THEN {"starttls"} ELSE {})
       \cup (IF creds THEN {"login"} ELSE {})

\* variant: the server is contacted before the recipients are checked
send_email_ConnectFirst(tls, creds, fail) ==
    /\ steps' = Append(steps, "send_email")
    /\ fail \in SmtpSteps(tls, creds) \cup {"none"}
    /\ connAttempted' = TRUE
    /\ IF fail = "connect"
       THEN /\ pc' = "raised" /\ raisedFrom' = "send_email"
            /\ smtpError' = fail
            /\ UNCHANGED <<content, exitStatus, sent>>
       ELSE IF ~address
       THEN /\ content' = [content EXCEPT
                   !["stdout"] = Append(@, Line("address_required", 0, 0))]
            /\ exitStatus' = 1
            /\ pc' = "exited"
            /\ UNCHANGED <<smtpError, sent, raisedFrom>>
       ELSE /\ smtpError' = fail
            /\ sent' = (fail \in {"none", "quit"})
            /\ IF fail = "none"
               THEN pc' = "returned" /\ UNCHANGED raisedFrom
               ELSE pc' = "raised" /\ raisedFrom' = "send_email"
            /\ UNCHANGED <<content, exitStatus>>

\* variant: transport errors are swallowed instead of raised
send_email_Swallow(tls, creds, fail) ==
    /\ steps' = Append(steps, "send_email")
    /\ IF ~address
       THEN /\ content' = [content EXCEPT
                   !["stdout"] = Append(@, Line("address_required", 0, 0))]
            /\ exitStatus' = 1
            /\ pc' = "exited"
            /\ UNCHANGED <<smtpError, connAttempted, sent, raisedFrom>>
       ELSE /\ fail \in SmtpSteps(tls, creds) \cup {"none"}
            /\ connAttempted' = TRUE
            /\ smtpError' = fail
            /\ sent' = (fail \in {"none", "quit"})
            /\ pc' = "returned"
            /\ UNCHANGED <<content, exitStatus, raisedFrom>>

send_email(tls, creds, fail) ==
    /\ steps' = Append(steps, "send_email")
    /\ IF ~address
       THEN /\ content' = [content EXCEPT
                   !["stdout"] = Append(@, Line("address_required", 0, 0))]
            /\ exitStatus' = 1
            /\ pc' = "exited"
            /\ UNCHANGED <<smtpError, connAttempted, sent, raisedFrom>>
       ELSE /\ fail \in SmtpSteps(tls, creds) \cup {"none"}
            /\ connAttempted' = TRUE
            /\ smtpError' = fail
            /\ sent' = (fail \in {"none", "quit"})
            /\ IF fail = "none"
               THEN pc' = "returned" /\ UNCHANGED raisedFrom
               ELSE pc' = "raised" /\ raisedFrom' = "send_email"
            /\ UNCHANGED <<content, exitStatus>>

\* variant: no mail after a rendering failure
ReportDispatch_SkipAfterFailure ==
    /\ pc = "closed"
    /\ IF email_file # None /\ ~renderRaised
       THEN \E tls \in BOOLEAN, creds \in BOOLEAN,
               fail \in {"none", "connect", "starttls", "login", "sendmail",
                         "quit"} :
               send_email(tls, creds, fail)
       ELSE /\ pc' = "returned"
            /\ UNCHANGED <<content, steps, smtpError, connAttempted, sent,
                           exitStatus, raisedFrom>>
    /\ UNCHANGED <<output_files, output_file, email_file, closed,
                   summaryCalled, logged, dumped, renderRaised, avgFailed,
                   writeFailed, closeFailed>>
    /\ UNCHANGED <<configVars, truncVars>>

\* report(), lines 76-77, and the return
ReportDispatch ==
    /\ pc = "closed"
    /\ IF email_file # None
       THEN \E tls \in BOOLEAN, creds \in BOOLEAN,
               fail \in {"none", "connect", "starttls", "login", "sendmail",
                         "quit"} :
               send_email(tls, creds, fail)
       ELSE /\ pc' = "returned"
            /\ UNCHANGED <<content, steps, smtpError, connAttempted, sent,
                           exitStatus, raisedFrom>>
    /\ UNCHANGED <<output_files, output_file, email_file, closed,
                   summaryCalled, logged, dumped, renderRaised, avgFailed,
                   writeFailed, closeFailed>>
    /\ UNCHANGED <<configVars, truncVars>>

Next == ReportResolveSinks \/ ReportRender \/ ReportClose \/ ReportDispatch

Spec == Init /\ [][Next]_vars

\* ---------------------------------------------------------------------
\* truncate(value, size): strings are sequences of characters
\* ---------------------------------------------------------------------
Chars == {"a", " ", "\n", "\r", "\t", "\f"}

\* what \s and str.strip() take for whitespace
IsSpace(ch) == ch \in {" ", "\n", "\r", "\t", "\f"}

\* value.replace("\n", " ").replace("\r", "").replace("\t", " ")
RECURSIVE Replace(_)
Replace(v) ==
    IF v = <<>> THEN <<>>
    ELSE IF Head(v) \in {"\n", "\t"} THEN <<" ">> \o Replace(Tail(v))
    ELSE IF Head(v) = "\r" THEN Replace(Tail(v))
    ELSE <<Head(v)>> \o Replace(Tail(v))

RECURSIVE LStrip(_)
LStrip(v) == IF v # <<>> /\ IsSpace(Head(v)) THEN LStrip(Tail(v)) ELSE v

RECURSIVE RStrip(_)
RStrip(v) ==
    IF v # <<>> /\ IsSpace(v[Len(v)]) THEN RStrip(SubSeq(v, 1, Len(v) - 1))
    ELSE v

\* value.strip()
Strip(v) == RStrip(LStrip(v))

\* WHITESPACES.sub(" ", value)
RECURSIVE Collapse(_)
Collapse(v) ==
    IF v = <<>> THEN <<>>
    ELSE IF IsSpace(Head(v)) THEN <<" ">> \o Collapse(LStrip(v))
    ELSE <<Head(v)>> \o Collapse(Tail(v))

\* value[:stop]
SliceTo(v, stop) ==
    IF stop >= 0 THEN SubSeq(v, 1, IF stop < Len(v) THEN stop ELSE Len(v))
    ELSE SubSeq(v, 1, IF Len(v) + stop > 0 THEN Len(v) + stop ELSE 0)

truncate(value, size) ==
    LET v == Collapse(Strip(Replace(value)))
    IN  IF Len(v) > size THEN SliceTo(v, size - 3) \o <<".", ".", ".">>
        ELSE v

RECURSIVE Strings(_)
Strings(n) ==
    IF n = 0 THEN {<<>>}
    ELSE Strings(n - 1)
         \cup {Append(v, ch) : v \in {w \in Strings(n - 1) : Len(w) = n - 1},
                               ch \in Chars}

InitTruncate ==
    /\ tvalue \in Strings(MaxLen)
    /\ tsize \in 0..MaxSize
    /\ tresult = <<>>
    /\ tpc = "call"
    /\ format = FORMAT_PLAIN /\ report_type = REPORT_TYPE_ALL
    /\ output = FALSE /\ smtp = FALSE /\ console = FALSE /\ multi = FALSE
    /\ address = FALSE /\ logger = FALSE /\ pages = <<>>
    /\ pc = "idle"
    /\ output_files = <<>> /\ output_file = None /\ email_file = None
    /\ content = [s \in Sinks |-> <<>>]
    /\ closed = {}
    /\ summaryCalled = FALSE /\ logged = FALSE /\ dumped = FALSE
    /\ renderRaised = FALSE /\ avgFailed = FALSE /\ writeFailed = FALSE
    /\ closeFailed = FALSE
    /\ smtpError = "none" /\ connAttempted = FALSE /\ sent = FALSE
    /\ exitStatus = 0 /\ raisedFrom = "none" /\ steps = <<>>

Truncate ==
    /\ tpc = "call"
    /\ tresult' = truncate(tvalue, tsize)
    /\ tpc' = "done"
    /\ UNCHANGED <<tvalue, tsize>>
    /\ UNCHANGED <<configVars, reportVars>>

NextTruncate == Truncate

SpecTruncate == InitTruncate /\ [][NextTruncate]_vars

\* ---------------------------------------------------------------------
\* Properties of report()
\* ---------------------------------------------------------------------
\* the try block of report() is behind
AfterTry ==
    \/ pc \in {"rendered", "closed", "returned", "exited"}
    \/ pc = "raised" /\ raisedFrom # "open"

\* report() is over: it returned, raised, or the process exited
Terminal == pc \in {"returned", "exited", "raised"}

Has(seq, x) == \E i \in 1..Len(seq) : seq[i] = x

Renderers == {FORMAT_PLAIN, FORMAT_JSON, FORMAT_JUNIT}

C2_SinksIdentical ==
    (pc = "rendered" /\ format \in Renderers /\ ~renderRaised /\ ~writeFailed)
        => \A i, j \in 1..Len(output_files) :
              content[output_files[i]] = content[output_files[j]]

\* C3: with mail configured and no recipient address, no connection to the
\* mail server is ever attempted, and once send_email has been called the
\* process has exited with a non-zero status.
C3_NoRecipientExitsBeforeConnect ==
    (smtp /\ ~address) =>
        /\ ~connAttempted
        /\ Has(steps, "send_email") => (pc = "exited" /\ exitStatus # 0)

C3_Witness ==
    /\ smtp /\ ~address /\ pc = "exited" /\ exitStatus = 1 /\ ~connAttempted

C5_AllOpenedSinksClosed ==
    Terminal => ({output_file, email_file} \ {None}) \subseteq closed

\* C5 (amended): when report() is over, the file sink it opened has been
\* closed, closing never raised, and the email buffer is not closed.
C5_FileClosedQuietly ==
    Terminal =>
        /\ (output_file # None) => ("file" \in closed)
        /\ raisedFrom # "close"
        /\ "email" \notin closed

C5_Witness ==
    /\ pc = "returned" /\ renderRaised /\ closeFailed /\ "file" \in closed

\* C6: the resolved sink list holds the file iff a path is configured, the
\* email buffer iff mail is configured, the console iff console output is
\* requested or there is neither file nor mail; it is never empty and is
\* ordered file, email buffer, console.
SinkRank(s) == IF s = "file" THEN 1 ELSE IF s = "email" THEN 2 ELSE 3

C6_SinkResolution ==
    AfterTry \/ pc = "resolved" =>
        /\ Has(output_files, "file") <=> output
        /\ Has(output_files, "email") <=> smtp
        /\ Has(output_files, "stdout") <=> (console \/ (~output /\ ~smtp))
        /\ output_files # <<>>
        /\ \A i, j \in 1..Len(output_files) :
              i < j => SinkRank(output_files[i]) < SinkRank(output_files[j])

C6_Witness ==
    /\ pc = "resolved" /\ ~output /\ ~smtp /\ ~console
    /\ output_files = <<"stdout">>

\* C7: the structured report holds as many page records as the scope
\* selects (all pages for "all", the failed pages for "errors"); the
\* test-report holds one case per page whatever the scope.
NumErrorPages == Cardinality({i \in 1..Len(pages) : pages[i].status # 200})

C7_PageCounts ==
    (AfterTry /\ content["file"] # <<>>) =>
        /\ (format = FORMAT_JSON /\ report_type = REPORT_TYPE_ALL)
              => Len(content["file"][1].pages) = Len(pages)
        /\ (format = FORMAT_JSON /\ report_type = REPORT_TYPE_ERRORS)
              => Len(content["file"][1].pages) = NumErrorPages
        /\ (format = FORMAT_JUNIT)
              => Len(content["file"][1].cases) = Len(pages)

C7_Witness ==
    /\ pc = "rendered" /\ format = FORMAT_JUNIT
    /\ report_type = REPORT_TYPE_ERRORS
    /\ content["file"] # <<>>
    /\ Len(pages) = 2 /\ NumErrorPages = 1
    /\ Len(content["file"][1].cases) = 2

\* C9: when computing the averages fails (and nothing else does), the
\* plain-text and the structured renderer still render every page the scope
\* selects.
PageRendered(s, id) ==
    \E i \in 1..Len(content[s]) :
        content[s][i].kind = "page" /\ content[s][i].arg = id

PagesRendered ==
    IF format = FORMAT_PLAIN
    THEN \A k \in 1..Len(output_files), n \in 1..Len(SelectedPages) :
            PageRendered(output_files[k], SelectedPages[n])
    ELSE /\ content["file"] # <<>>
         /\ content["file"][1].pages = SelectedPages

C9_AverageFailureKeepsPages ==
    (pc = "rendered" /\ format \in {FORMAT_PLAIN, FORMAT_JSON}
       /\ avgFailed /\ ~writeFailed) => PagesRendered

\* C10: when report() returned or reached mail dispatch, its steps were, in
\* this order: sinks resolved, at most one renderer, the file sink closed,
\* mail dispatch; send_email was called once iff mail is configured (also
\* after a rendering failure) and is never called otherwise.
StepsAt(names) == {i \in 1..Len(steps) : steps[i] \in names}

C10_StepOrder ==
    /\ Cardinality(StepsAt({"send_email"})) <= 1
    /\ ~smtp => StepsAt({"send_email"}) = {}
    /\ (pc \in {"returned", "exited"}
          \/ (pc = "raised" /\ raisedFrom = "send_email")) =>
          /\ StepsAt({"resolve"}) = {1}
          /\ Cardinality(StepsAt(Renderers)) <= 1
          /\ Cardinality(StepsAt({"close"})) = (IF output THEN 1 ELSE 0)
          /\ Cardinality(StepsAt({"send_email"})) = (IF smtp THEN 1 ELSE 0)
          /\ \A r \in StepsAt(Renderers), c \in StepsAt({"close"}) : r < c
          /\ \A a \in StepsAt(Renderers \cup {"close", "resolve"}),
                m \in StepsAt({"send_email"}) : a < m
          /\ \A r \in StepsAt(Renderers \cup {"close"}) : 1 < r

C10_Witness ==
    /\ pc = "returned" /\ smtp /\ output /\ renderRaised /\ sent
    /\ steps = <<"resolve", FORMAT_JSON, "close", "send_email">>

\* ---------------------------------------------------------------------
\* C8: truncate(value, N) never returns more than N characters.
\* ---------------------------------------------------------------------
C8_TruncateWithinSize == (tpc = "done") => Len(tresult) <= tsize

====
